---- MODULE Spec2Model ----
(***************************************************************************)
(* mir_eval segment evaluation: boundary.py (detection, deviation) and     *)
(* structure.py (pairwise, ari, mutual_information, nce), each behind its  *)
(* validate decorator.                                                     *)
(*                                                                         *)
(* Times are integers counted in units of 1e-8 s, the absolute tolerance   *)
(* of numpy.allclose, so that allclose is computed exactly.  A float       *)
(* result is an exact fraction [num, den]; den = 0 is NaN.                 *)
(***************************************************************************)
EXTENDS Integers, Sequences, FiniteSets, TLC

VARIABLES metric, reference_intervals, estimated_intervals,
          reference_labels, estimated_labels,
          window, beta, trim, frame_size,
          pc, passed, calls, result, error

vars == <<metric, reference_intervals, estimated_intervals,
          reference_labels, estimated_labels,
          window, beta, trim, frame_size,
          pc, passed, calls, result, error>>

args == <<metric, reference_intervals, estimated_intervals,
          reference_labels, estimated_labels,
          window, beta, trim, frame_size>>

\* ------------------------------------------------------------------ bounds

\* Largest timestamp of a generated segmentation (boundary metrics).
MaxTime == 4

\* Largest timestamp of a generated segmentation (structure metrics).
MaxEnd == 3

\* ------------------------------------------------------------- arithmetic

Abs(x) == IF x < 0 THEN -x ELSE x

Min2(x, y) == IF x <= y THEN x ELSE y

Frac(n, d) == [num |-> n, den |-> d]

NaN == Frac(0, 0)

IsNaN(q) == q.den = 0

Zero == Frac(0, 1)

One == Frac(1, 1)

\* q = r as numbers; NaN equals nothing, itself included (IEEE comparison).
FracEq(q, r) == ~IsNaN(q) /\ ~IsNaN(r) /\ q.num * r.den = r.num * q.den

\* Same float value, or both NaN.
SameValue(q, r) == IF IsNaN(q) \/ IsNaN(r) THEN IsNaN(q) /\ IsNaN(r) ELSE FracEq(q, r)

FracMul(q, r) == IF IsNaN(q) \/ IsNaN(r) THEN NaN ELSE Frac(q.num * r.num, q.den * r.den)

FracAdd(q, r) ==
    IF IsNaN(q) \/ IsNaN(r) THEN NaN
    ELSE Frac(q.num * r.den + r.num * q.den, q.den * r.den)

\* A finite float with no exact fraction (it involves a logarithm), kept as
\* the expression that computes it.
Sym(e) == [num |-> 0, den |-> 1, expr |-> e]

IsSym(q) == "expr" \in DOMAIN q

\* 0 <= q <= 1, false of NaN.
InUnitInterval(q) == ~IsNaN(q) /\ 0 <= q.num /\ q.num <= q.den

\* --------------------------------------------------------------- sequences

RECURSIVE SortedSeq(_)
\* The elements of a finite set of integers in ascending order.
SortedSeq(S) ==
    IF S = {} THEN <<>>
    ELSE LET m == CHOOSE x \in S : \A y \in S : x <= y
         IN  <<m>> \o SortedSeq(S \ {m})

Range(s) == {s[i] : i \in 1..Len(s)}

RECURSIVE Tabulate(_, _)
\* The sequence <<F(1), ..., F(n)>>.
Tabulate(F(_), n) == IF n = 0 THEN <<>> ELSE Append(Tabulate(F, n - 1), F(n))

\* ndarray: ndim, shape[1] and the rows; a 1-D array has no shape[1].
Array2(rows) == [ndim |-> 2, shape1 |-> 2, data |-> rows]

Values(a) == UNION {Range(a.data[i]) : i \in 1..Len(a.data)}

\* ---------------------------------------------------------------- errors

NoError == [type |-> "none", msg |-> "", at |-> <<>>]

ValueError(m) == [type |-> "ValueError", msg |-> m, at |-> <<>>]

\* ---------------------------------------------- util (external collaborator)

\* intervals_to_boundaries: the distinct timestamps of the array, ascending.
intervals_to_boundaries(intervals) == SortedSeq(Values(intervals))

RECURSIVE sweep(_, _, _, _, _)
\* Pairs in ascending time order: match the two heads when they are within
\* the window, else drop the earlier head.
sweep(ref, est, w, i, j) ==
    IF i > Len(ref) \/ j > Len(est) THEN <<>>
    ELSE IF Abs(ref[i] - est[j]) <= w
         THEN <<<<i, j>>>> \o sweep(ref, est, w, i + 1, j + 1)
         ELSE IF ref[i] < est[j]
              THEN sweep(ref, est, w, i + 1, j)
              ELSE sweep(ref, est, w, i, j + 1)

\* match_events: a maximum matching under the window constraint.
match_events(ref, est, w) == sweep(ref, est, w, 1, 1)

\* f_measure: (1 + beta^2) P R / (beta^2 P + R), 0 when the denominator is 0;
\* a NaN operand gives NaN.
f_measure(precision, recall, b) ==
    IF IsNaN(precision) \/ IsNaN(recall) THEN NaN
    ELSE IF IsSym(precision) \/ IsSym(recall)
    THEN Sym(<<"f_measure", precision, recall, b>>)
    ELSE LET b2  == FracMul(b, b)
             den == FracAdd(FracMul(b2, precision), recall)
             num == FracMul(FracAdd(One, b2), FracMul(precision, recall))
         IN  IF den.num = 0 THEN Zero
             ELSE Frac(num.num * den.den, num.den * den.num)

\* ------------------------------------------------------------- boundary.py

\* The duration check with < where <= is meant: an empty interval passes.
boundary_validate_intervals_strict(intervals) ==
    IF intervals.ndim # 2 \/ intervals.shape1 # 2
    THEN ValueError("Segment intervals should be n-by-2 numpy ndarray")
    ELSE IF \E v \in Values(intervals) : v < 0
    THEN ValueError("Negative interval times found")
    ELSE LET bad == {i \in 1..Len(intervals.data) :
                        intervals.data[i][2] - intervals.data[i][1] < 0}
         IN  IF bad # {}
             THEN LET i == CHOOSE k \in bad : \A l \in bad : k <= l
                  IN  [type |-> "ValueError",
                       msg  |-> "Non-positive interval detected",
                       at   |-> intervals.data[i]]
             ELSE NoError

\* __validate_intervals of boundary.py: the first error raised, or NoError.
boundary_validate_intervals(intervals) ==
    IF intervals.ndim # 2 \/ intervals.shape1 # 2
    THEN ValueError("Segment intervals should be n-by-2 numpy ndarray")
    ELSE IF \E v \in Values(intervals) : v < 0
    THEN ValueError("Negative interval times found")
    ELSE LET bad == {i \in 1..Len(intervals.data) :
                        intervals.data[i][2] - intervals.data[i][1] <= 0}
         IN  IF bad # {}
             THEN LET i == CHOOSE k \in bad : \A l \in bad : k <= l
                  IN  [type |-> "ValueError",
                       msg  |-> "Non-positive interval detected",
                       at   |-> intervals.data[i]]
             ELSE NoError

\* The loop of metric_validated: the reference is checked before the estimate.
boundary_validate(ref, est) ==
    LET e == boundary_validate_intervals(ref)
    IN  IF e # NoError THEN e ELSE boundary_validate_intervals(est)

\* boundaries[1:], the last boundary kept.
Trim_keep_last(b) == IF Len(b) <= 1 THEN <<>> ELSE SubSeq(b, 2, Len(b))

\* boundaries[1:-1]
Trim(b) == IF Len(b) <= 2 THEN <<>> ELSE SubSeq(b, 2, Len(b) - 1)

Boundaries(intervals, tr) ==
    LET b == intervals_to_boundaries(intervals)
    IN  IF tr THEN Trim(b) ELSE b

\* detection with the two quotients' divisors exchanged.
detection_swapped(ref_intervals, est_intervals, w, b, tr) ==
    LET reference_boundaries == Boundaries(ref_intervals, tr)
        estimated_boundaries == Boundaries(est_intervals, tr)
        conv == <<"intervals_to_boundaries", "intervals_to_boundaries">>
    IN  IF Len(reference_boundaries) = 0 \/ Len(estimated_boundaries) = 0
        THEN [value |-> <<Zero, Zero, Zero>>, calls |-> conv]
        ELSE LET matching  == match_events(reference_boundaries,
                                           estimated_boundaries, w)
                 precision == Frac(Len(matching), Len(reference_boundaries))
                 recall    == Frac(Len(matching), Len(estimated_boundaries))
             IN  [value |-> <<precision, recall, f_measure(precision, recall, b)>>,
                  calls |-> conv \o <<"match_events", "f_measure">>]

\* detection returning early only when both boundary sets are empty.
detection_and(ref_intervals, est_intervals, w, b, tr) ==
    LET reference_boundaries == Boundaries(ref_intervals, tr)
        estimated_boundaries == Boundaries(est_intervals, tr)
        conv == <<"intervals_to_boundaries", "intervals_to_boundaries">>
    IN  IF Len(reference_boundaries) = 0 /\ Len(estimated_boundaries) = 0
        THEN [value |-> <<Zero, Zero, Zero>>, calls |-> conv]
        ELSE LET matching  == match_events(reference_boundaries,
                                           estimated_boundaries, w)
                 precision == Frac(Len(matching), Len(estimated_boundaries))
                 recall    == Frac(Len(matching), Len(reference_boundaries))
             IN  [value |-> <<precision, recall, f_measure(precision, recall, b)>>,
                  calls |-> conv \o <<"match_events", "f_measure">>]

\* The body of detection: the result and the collaborators called.
detection(ref_intervals, est_intervals, w, b, tr) ==
    LET reference_boundaries == Boundaries(ref_intervals, tr)
        estimated_boundaries == Boundaries(est_intervals, tr)
        conv == <<"intervals_to_boundaries", "intervals_to_boundaries">>
    IN  IF Len(reference_boundaries) = 0 \/ Len(estimated_boundaries) = 0
        THEN [value |-> <<Zero, Zero, Zero>>, calls |-> conv]
        ELSE LET matching  == match_events(reference_boundaries,
                                           estimated_boundaries, w)
                 precision == Frac(Len(matching), Len(estimated_boundaries))
                 recall    == Frac(Len(matching), Len(reference_boundaries))
             IN  [value |-> <<precision, recall, f_measure(precision, recall, b)>>,
                  calls |-> conv \o <<"match_events", "f_measure">>]

RECURSIVE Sorted(_)
\* A sequence of integers in ascending order, repetitions kept.
Sorted(s) ==
    IF Len(s) = 0 THEN <<>>
    ELSE LET k == CHOOSE i \in 1..Len(s) : \A j \in 1..Len(s) : s[i] <= s[j]
         IN  <<s[k]>> \o Sorted(SubSeq(s, 1, k - 1) \o SubSeq(s, k + 1, Len(s)))

\* np.median of a non-empty sequence of integers: the middle element, or the
\* mean of the two middle elements.
Median(s) ==
    LET t == Sorted(s)
        n == Len(s)
    IN  IF n % 2 = 1 THEN Frac(t[(n + 1) \div 2], 1)
        ELSE Frac(t[n \div 2] + t[n \div 2 + 1], 2)

\* dist = |reference - estimated| outer difference, shape (n_ref, n_est).
Dist(rb, eb) == [i \in 1..Len(rb) |-> [j \in 1..Len(eb) |-> Abs(rb[i] - eb[j])]]

\* dist.min(axis=1): for each row the least entry.
MinAxis1(dist, n, m) ==
    [i \in 1..n |-> CHOOSE d \in {dist[i][j] : j \in 1..m} :
                        \A j \in 1..m : d <= dist[i][j]]

\* The minimum taken along the rows where the columns are meant.
MinAxis0_rows(dist, n, m) == MinAxis1(dist, n, m)

\* dist.min(axis=0): for each column the least entry.
MinAxis0(dist, n, m) ==
    [j \in 1..m |-> CHOOSE d \in {dist[i][j] : i \in 1..n} :
                        \A i \in 1..n : d <= dist[i][j]]

\* The body of deviation.
deviation(ref_intervals, est_intervals, tr) ==
    LET reference_boundaries == Boundaries(ref_intervals, tr)
        estimated_boundaries == Boundaries(est_intervals, tr)
        n == Len(reference_boundaries)
        m == Len(estimated_boundaries)
        conv == <<"intervals_to_boundaries", "intervals_to_boundaries">>
    IN  IF n = 0 \/ m = 0
        THEN [value |-> <<NaN, NaN>>, calls |-> conv]
        ELSE LET dist == Dist(reference_boundaries, estimated_boundaries)
                 estimated_to_reference == Median(MinAxis0(dist, n, m))
                 reference_to_estimated == Median(MinAxis1(dist, n, m))
             IN  [value |-> <<reference_to_estimated, estimated_to_reference>>,
                  calls |-> conv \o <<"subtract.outer", "median", "median">>]

\* ------------------------------------- util, sklearn (structure collaborators)

\* The label of the first interval containing time t, None when there is none.
LabelAt(intervals, labels, t) ==
    LET hit == {i \in 1..Len(intervals.data) :
                   intervals.data[i][1] <= t /\ t < intervals.data[i][2]}
    IN  IF hit = {} THEN "None"
        ELSE labels[CHOOSE i \in hit : \A k \in hit : i <= k]

MaxOf(S) == CHOOSE x \in S : \A y \in S : y <= x

\* intervals_to_samples: one sample every sample_size from 0, as many as
\* whole multiples of sample_size fit before the end of the track; the
\* remainder is dropped.  <<sample_times, sample_labels>>.
intervals_to_samples(intervals, labels, sample_size) ==
    LET num_samples == MaxOf(Values(intervals)) \div sample_size
        times == Tabulate(LAMBDA k : (k - 1) * sample_size, num_samples)
    IN  <<times, Tabulate(LAMBDA k : LabelAt(intervals, labels, times[k]),
                          num_samples)>>

\* index_labels: each distinct label gets the next integer id, in order of
\* first appearance.  <<ids, id_to_label>>.
index_labels(y) ==
    LET first(k) == CHOOSE i \in 1..k : y[i] = y[k] /\ \A l \in 1..(i - 1) : y[l] # y[k]
        firsts   == {i \in 1..Len(y) : first(i) = i}
        id(k)    == Cardinality({i \in firsts : i < first(k)})
        order    == SortedSeq(firsts)
    IN  <<Tabulate(id, Len(y)), Tabulate(LAMBDA n : y[order[n]], Len(order))>>

\* sklearn's contingency_matrix: one row per reference id, one column per
\* estimated id, the number of frames carrying both.
contingency_matrix(y_ref, y_est) ==
    LET rows == SortedSeq(Range(y_ref))
        cols == SortedSeq(Range(y_est))
    IN  [i \in 1..Len(rows) |-> [j \in 1..Len(cols) |->
            Cardinality({k \in 1..Len(y_ref) : y_ref[k] = rows[i] /\ y_est[k] = cols[j]})]]

\* numpy.allclose(a, b): |a - b| <= atol + rtol * |b|, atol = 1e-8 (one time
\* unit) and rtol = 1e-5.
RTolInv == 100000

allclose(a, b) == RTolInv * Abs(a - b) <= RTolInv + Abs(b)

\* ------------------------------------------------------------ structure.py

IndexError(m) == [type |-> "IndexError", msg |-> m, at |-> <<>>]

\* __validate_intervals of structure.py.
structure_validate_intervals(intervals) ==
    IF intervals.ndim # 2 \/ intervals.shape1 # 2
    THEN ValueError("Segment intervals should be n-by-2 numpy ndarray")
    ELSE IF \E v \in Values(intervals) : v < 0
    THEN ValueError("Negative interval times found")
    ELSE NoError

\* One pass of the loop of metric_validated over (intervals, labels).
structure_validate_one(intervals, labels) ==
    LET e == structure_validate_intervals(intervals)
    IN  IF e # NoError THEN e
        ELSE IF Len(intervals.data) # Len(labels)
        THEN ValueError("Number of intervals does not match number of labels")
        ELSE IF Len(intervals.data) = 0
        THEN IndexError("index 0 is out of bounds for axis 0 with size 0")
        ELSE IF ~allclose(intervals.data[1][1], 0)
        THEN ValueError("Segment intervals do not start at 0")
        ELSE NoError

\* The end of the estimate's first interval compared where its last is meant.
structure_validate_first_end(ref, ref_labels, est, est_labels) ==
    LET e1 == structure_validate_one(ref, ref_labels)
        e2 == structure_validate_one(est, est_labels)
    IN  IF e1 # NoError THEN e1
        ELSE IF e2 # NoError THEN e2
        ELSE IF ~allclose(ref.data[Len(ref.data)][2], est.data[1][2])
        THEN ValueError("End times do not match")
        ELSE NoError

\* metric_validated of structure.py up to the call of the metric.
structure_validate(ref, ref_labels, est, est_labels) ==
    LET e1 == structure_validate_one(ref, ref_labels)
        e2 == structure_validate_one(est, est_labels)
    IN  IF e1 # NoError THEN e1
        ELSE IF e2 # NoError THEN e2
        ELSE IF ~allclose(ref.data[Len(ref.data)][2], est.data[Len(est.data)][2])
        THEN ValueError("End times do not match")
        ELSE NoError

\* The ids read from a vocabulary fixed in advance: "a" is 0, any other label 1.
Frames_vocabulary(intervals, labels, fs) ==
    LET y == intervals_to_samples(intervals, labels, fs)[2]
    IN  Tabulate(LAMBDA k : IF y[k] = "a" THEN 0 ELSE 1, Len(y))

\* The frame labels of a segmentation in index space.
Frames(intervals, labels, fs) ==
    index_labels(intervals_to_samples(intervals, labels, fs)[2])[1]

\* np.triu(..., k=1): the diagonal left out.
Agree_strict(y) == {c \in (1..Len(y)) \X (1..Len(y)) : c[1] < c[2] /\ y[c[1]] = y[c[2]]}

\* np.triu(np.equal.outer(y, y)): cell (i, j) is set when i <= j and frames
\* i and j carry the same id.
Agree(y) == {c \in (1..Len(y)) \X (1..Len(y)) : c[1] <= c[2] /\ y[c[1]] = y[c[2]]}

\* agree_ref | agree_est where & is meant.
AgreeBoth_or(agree_ref, n, agree_est, m) ==
    IF n = m THEN agree_ref \cup agree_est
    ELSE IF n = 1 THEN agree_est
    ELSE agree_ref

\* agree_ref & agree_est under numpy broadcasting, n and m the two side
\* lengths: equal shapes cell by cell, a 1 x 1 operand against every cell of
\* the other; the set cells of the result.
AgreeBoth(agree_ref, n, agree_est, m) ==
    IF n = m THEN agree_ref \cap agree_est
    ELSE IF n = 1 THEN agree_est
    ELSE agree_ref

Broadcastable(n, m) == n = m \/ n = 1 \/ m = 1

FrameCalls == <<"intervals_to_samples", "index_labels",
                "intervals_to_samples", "index_labels">>

Raise(e, c) == [status |-> "raised", value |-> <<>>, error |-> e, calls |-> c]

Return(v, c) == [status |-> "returned", value |-> v, error |-> NoError, calls |-> c]

\* float / numpy integer: a zero divisor gives NaN where the division is
\* numpy's, ZeroDivisionError where the numpy integer is a Python int and the
\* division the float's own (divzero names which).
Divide(x, d, divzero) ==
    IF d # 0 THEN Frac(x, d)
    ELSE IF divzero = "nan" THEN NaN
    ELSE [num |-> 0, den |-> 0, raised |-> TRUE]

Raised(q) == "raised" \in DOMAIN q

\* The body of pairwise.
pairwise(ref_intervals, ref_labels, est_intervals, est_labels, fs, b, divzero) ==
    LET y_ref == Frames(ref_intervals, ref_labels, fs)
        y_est == Frames(est_intervals, est_labels, fs)
        agree_ref == Agree(y_ref)
        agree_est == Agree(y_est)
    IN  IF ~Broadcastable(Len(y_ref), Len(y_est))
        THEN Raise(ValueError("operands could not be broadcast together"), FrameCalls)
        ELSE LET matches == Cardinality(AgreeBoth(agree_ref, Len(y_ref),
                                                  agree_est, Len(y_est)))
                 precision == Divide(matches, Cardinality(agree_est), divzero)
                 recall    == Divide(matches, Cardinality(agree_ref), divzero)
             IN  IF Raised(precision) \/ Raised(recall)
                 THEN Raise([type |-> "ZeroDivisionError",
                             msg |-> "float division by zero", at |-> <<>>],
                            FrameCalls)
                 ELSE Return(<<precision, recall, f_measure(precision, recall, b)>>,
                             FrameCalls \o <<"f_measure">>)

\* A call into sklearn on the two frame-label arrays, which must be equally
\* long; the value is kept as the call.
Sklearn(name, y_ref, y_est) ==
    IF Len(y_ref) # Len(y_est)
    THEN Raise(ValueError("labels_true and labels_pred must have same size"),
               FrameCalls \o <<name>>)
    ELSE Return(<<Sym(<<name, y_ref, y_est>>)>>, FrameCalls \o <<name>>)

\* The body of ari.
ari(ref_intervals, ref_labels, est_intervals, est_labels, fs) ==
    Sklearn("adjusted_rand_score",
            Frames(ref_intervals, ref_labels, fs),
            Frames(est_intervals, est_labels, fs))

\* The body of mutual_information.
mutual_information(ref_intervals, ref_labels, est_intervals, est_labels, fs) ==
    LET y_ref == Frames(ref_intervals, ref_labels, fs)
        y_est == Frames(est_intervals, est_labels, fs)
        mi    == Sklearn("mutual_info_score", y_ref, y_est)
    IN  IF mi.status = "raised" THEN mi
        ELSE Return(<<Sym(<<"mutual_info_score", y_ref, y_est>>),
                      Sym(<<"adjusted_mutual_info_score", y_ref, y_est>>),
                      Sym(<<"normalized_mutual_info_score", y_ref, y_est>>)>>,
                    FrameCalls \o <<"mutual_info_score", "adjusted_mutual_info_score",
                                    "normalized_mutual_info_score">>)

RECURSIVE SumSeq(_)
SumSeq(s) == IF Len(s) = 0 THEN 0 ELSE s[1] + SumSeq(SubSeq(s, 2, Len(s)))

\* p.dot(scipy.stats.entropy(table, base=2)) over the columns of table:
\* entropy normalises each column by its sum, so a column summing to 0 has
\* entropy NaN and makes the product NaN; otherwise a finite number.
WeightedEntropy(name, table) ==
    LET n_rows == Len(table)
        n_cols == IF Len(table) = 0 THEN 0 ELSE Len(table[1])
    IN  IF \E j \in 1..n_cols : SumSeq([i \in 1..n_rows |-> table[i][j]]) = 0
        THEN NaN
        ELSE Sym(<<name, table>>)

\* contingency.T
Transpose(table) ==
    LET n_rows == Len(table)
        n_cols == IF Len(table) = 0 THEN 0 ELSE Len(table[1])
    IN  [j \in 1..n_cols |-> [i \in 1..n_rows |-> table[i][j]]]

\* 1. - h / np.log2(n), n > 1.
Score(h, n) == IF IsNaN(h) THEN NaN ELSE Sym(<<"1 - h / log2(n)", h, n>>)

\* The shape unpacked in the wrong order.
Shape_swapped(table) == <<IF Len(table) = 0 THEN 0 ELSE Len(table[1]), Len(table)>>

\* contingency.shape
Shape(table) == <<Len(table), IF Len(table) = 0 THEN 0 ELSE Len(table[1])>>

\* The body of nce.  The table holds frame counts: dividing every cell by
\* len(y_ref) changes no column's being zero, and a table without frames has
\* no cell to divide.
nce(ref_intervals, ref_labels, est_intervals, est_labels, fs, b) ==
    LET y_ref == Frames(ref_intervals, ref_labels, fs)
        y_est == Frames(est_intervals, est_labels, fs)
        table == Sklearn("contingency_matrix", y_ref, y_est)
    IN  IF table.status = "raised" THEN table
        ELSE LET contingency == contingency_matrix(y_ref, y_est)
                 n_ref == Shape(contingency)[1]
                 n_est == Shape(contingency)[2]
                 true_given_est == WeightedEntropy("H(ref | est)", contingency)
                 pred_given_ref == WeightedEntropy("H(est | ref)",
                                                   Transpose(contingency))
                 score_under == IF n_ref > 1 THEN Score(true_given_est, n_ref) ELSE NaN
                 score_over  == IF n_est > 1 THEN Score(pred_given_ref, n_est) ELSE NaN
             IN  Return(<<score_over, score_under,
                          f_measure(score_over, score_under, b)>>,
                        FrameCalls \o <<"contingency_matrix", "entropy", "entropy",
                                        "f_measure">>)

\* ------------------------------------------------------ inputs (boundary)

\* The contiguous segmentation whose boundaries are the set B.
Seg(B) ==
    LET b == SortedSeq(B)
    IN  Array2([i \in 1..(Len(b) - 1) |-> <<b[i], b[i + 1]>>])

\* Arrays that are not contiguous segmentations: a gap, an overlap, rows out
\* of order, a negative time, an empty interval, a reversed interval, a 1-D
\* array, three columns, one column.
Irregular ==
    { Array2(<< <<0, 1>>, <<2, 3>> >>),
      Array2(<< <<0, 2>>, <<1, 3>> >>),
      Array2(<< <<2, 3>>, <<0, 2>> >>),
      Array2(<< <<-1, 1>>, <<1, 2>> >>),
      Array2(<< <<0, 1>>, <<1, 1>> >>),
      Array2(<< <<0, 2>>, <<2, 1>> >>),
      [ndim |-> 1, shape1 |-> 0, data |-> << <<0>>, <<1>>, <<2>> >>],
      [ndim |-> 2, shape1 |-> 3, data |-> << <<0, 1, 2>> >>],
      [ndim |-> 2, shape1 |-> 1, data |-> << <<0>>, <<1>> >>] }

BoundaryArrays == {Seg(B) : B \in (SUBSET (0..MaxTime)) \ {{}}} \cup Irregular

Windows == {1, 2, MaxTime}

Betas == {Frac(1, 2), Frac(1, 1), Frac(2, 1)}

InitBoundary ==
    /\ metric \in {"detection", "deviation"}
    /\ reference_intervals \in BoundaryArrays
    /\ estimated_intervals \in BoundaryArrays
    /\ reference_labels = <<>>
    /\ estimated_labels = <<>>
    /\ window \in IF metric = "detection" THEN Windows ELSE {1}
    /\ beta \in IF metric = "detection" THEN Betas ELSE {One}
    /\ trim \in BOOLEAN
    /\ frame_size = 1
    /\ pc = "call"
    /\ passed = <<>>
    /\ calls = <<>>
    /\ result = <<>>
    /\ error = NoError

\* metric_validated of boundary.py: both arrays are validated, then the
\* metric is called with the same arguments.
BoundaryValidate ==
    /\ pc = "call"
    /\ metric \in {"detection", "deviation"}
    /\ LET e == boundary_validate(reference_intervals, estimated_intervals)
       IN  IF e # NoError
           THEN /\ pc' = "raised"
                /\ error' = e
                /\ passed' = passed
           ELSE /\ pc' = "metric"
                /\ error' = error
                /\ passed' = <<reference_intervals, estimated_intervals>>
    /\ UNCHANGED <<args, calls, result>>

Detection ==
    /\ pc = "metric"
    /\ metric = "detection"
    /\ LET r == detection(passed[1], passed[2], window, beta, trim)
       IN  /\ result' = r.value
           /\ calls' = r.calls
    /\ pc' = "returned"
    /\ UNCHANGED <<args, passed, error>>

Deviation ==
    /\ pc = "metric"
    /\ metric = "deviation"
    /\ LET r == deviation(passed[1], passed[2], trim)
       IN  /\ result' = r.value
           /\ calls' = r.calls
    /\ pc' = "returned"
    /\ UNCHANGED <<args, passed, error>>

NextBoundary == BoundaryValidate \/ Detection \/ Deviation

SpecBoundary == InitBoundary /\ [][NextBoundary]_vars

\* ----------------------------------------------------- inputs (structure)

Labels == {"a", "b"}

\* Every labelling of every contiguous segmentation with boundaries in
\* 0..MaxEnd.
LabelledSegs ==
    UNION {{<<Seg(B), l>> : l \in [1..(Cardinality(B) - 1) -> Labels]} :
              B \in (SUBSET (0..MaxEnd)) \ {{}}}

\* Other inputs: empty intervals (first, last, only), a reversed interval, a
\* gap, a negative time, three columns, a 1-D array, too many and too few
\* labels.
StructIrregular ==
    { <<Array2(<< <<0, 0>> >>), <<"a">>>>,
      <<Array2(<< <<0, 0>>, <<0, 2>> >>), <<"a", "b">>>>,
      <<Array2(<< <<0, 2>>, <<2, 2>> >>), <<"a", "b">>>>,
      <<Array2(<< <<0, 2>>, <<2, 1>> >>), <<"a", "b">>>>,
      <<Array2(<< <<0, 1>>, <<2, 3>> >>), <<"a", "a">>>>,
      <<Array2(<< <<-1, 1>>, <<1, 2>> >>), <<"a", "b">>>>,
      <<[ndim |-> 2, shape1 |-> 3, data |-> << <<0, 1, 2>> >>], <<"a">>>>,
      <<[ndim |-> 1, shape1 |-> 0, data |-> << <<0>>, <<2>> >>], <<"a", "b">>>>,
      <<Array2(<< <<0, 2>> >>), <<"a", "b">>>>,
      <<Array2(<< <<0, 1>>, <<1, 2>> >>), <<"a">>>> }

StructInputs == LabelledSegs \cup StructIrregular

FrameSizes == {1, 2}

StructBetas == {Frac(1, 1), Frac(2, 1)}

\* The outcomes of a float divided by a zero numpy integer.
DivZero == {"nan", "raise"}

StructureMetrics == {"pairwise", "ari", "mutual_information", "nce"}

InitStructure ==
    /\ metric \in StructureMetrics
    /\ \E r \in StructInputs, e \in StructInputs :
          /\ reference_intervals = r[1]
          /\ reference_labels = r[2]
          /\ estimated_intervals = e[1]
          /\ estimated_labels = e[2]
    /\ window = 1
    /\ beta \in IF metric \in {"pairwise", "nce"} THEN StructBetas ELSE {One}
    /\ trim = FALSE
    /\ frame_size \in FrameSizes
    /\ pc = "call"
    /\ passed = <<>>
    /\ calls = <<>>
    /\ result = <<>>
    /\ error = NoError

\* metric_validated of structure.py: each (intervals, labels) pair is
\* validated, then the end times are compared, then the metric is called with
\* the same arguments.
StructureValidate ==
    /\ pc = "call"
    /\ metric \in StructureMetrics
    /\ LET e == structure_validate(reference_intervals, reference_labels,
                                   estimated_intervals, estimated_labels)
       IN  IF e # NoError
           THEN /\ pc' = "raised"
                /\ error' = e
                /\ passed' = passed
           ELSE /\ pc' = "metric"
                /\ error' = error
                /\ passed' = <<reference_intervals, reference_labels,
                               estimated_intervals, estimated_labels>>
    /\ UNCHANGED <<args, calls, result>>

\* The metric ends by returning its value or by raising.
Finish(r) ==
    /\ pc' = r.status
    /\ result' = r.value
    /\ error' = r.error
    /\ calls' = r.calls
    /\ UNCHANGED <<args, passed>>

Pairwise ==
    /\ pc = "metric"
    /\ metric = "pairwise"
    /\ \E divzero \in DivZero :
          Finish(pairwise(passed[1], passed[2], passed[3], passed[4],
                          frame_size, beta, divzero))

Ari ==
    /\ pc = "metric"
    /\ metric = "ari"
    /\ Finish(ari(passed[1], passed[2], passed[3], passed[4], frame_size))

MutualInformation ==
    /\ pc = "metric"
    /\ metric = "mutual_information"
    /\ Finish(mutual_information(passed[1], passed[2], passed[3], passed[4],
                                 frame_size))

Nce ==
    /\ pc = "metric"
    /\ metric = "nce"
    /\ Finish(nce(passed[1], passed[2], passed[3], passed[4], frame_size, beta))

NextStructure == StructureValidate \/ Pairwise \/ Ari \/ MutualInformation \/ Nce

SpecStructure == InitStructure /\ [][NextStructure]_vars

\* ------------------------------------------------------- claims (boundary)

\* The boundary set a call works on, stated on sets: every timestamp of the
\* array, without the least and the greatest one when trimming.
BoundarySet(intervals, tr) ==
    LET S == Values(intervals)
    IN  IF ~tr THEN S
        ELSE {x \in S : (\E y \in S : y < x) /\ (\E y \in S : y > x)}

RefSet == BoundarySet(reference_intervals, trim)

EstSet == BoundarySet(estimated_intervals, trim)

RECURSIVE BestFrom(_, _, _, _)
\* The most pairs any matching can make of the reference boundaries in todo
\* with the estimated boundaries in free, pairs within w only, each boundary
\* used at most once (every choice tried).
BestFrom(todo, free, w, n) ==
    IF todo = {} \/ free = {} THEN n
    ELSE LET r    == CHOOSE x \in todo : TRUE
             rest == todo \ {r}
             skip == BestFrom(rest, free, w, n)
             with == {BestFrom(rest, free \ {e}, w, n + 1) :
                         e \in {x \in free : Abs(r - x) <= w}}
             all  == with \cup {skip}
         IN  CHOOSE k \in all : \A l \in all : l <= k

MaxMatching(R, E, w) == BestFrom(R, E, w, 0)

Returned(m) == pc = "returned" /\ metric = m

\* C2: detection's precision is |M| / |estimated boundaries| and its recall
\* |M| / |reference boundaries|, M a maximum matching of the (trimmed)
\* boundary sets within the window, each boundary used at most once; identical
\* boundary sets give (1, 1, 1); a window covering every distance gives
\* |M| = min(|ref|, |est|).  Stated where the matching is computed (both
\* boundary sets non-empty).
ThmC2 ==
    (Returned("detection") /\ RefSet # {} /\ EstSet # {}) =>
        LET M == MaxMatching(RefSet, EstSet, window)
        IN  /\ FracEq(result[1], Frac(M, Cardinality(EstSet)))
            /\ FracEq(result[2], Frac(M, Cardinality(RefSet)))
            /\ M <= Min2(Cardinality(RefSet), Cardinality(EstSet))
            /\ (RefSet = EstSet =>
                    \A k \in 1..3 : FracEq(result[k], One))
            /\ ((\A r \in RefSet : \A e \in EstSet : Abs(r - e) <= window) =>
                    /\ M = Min2(Cardinality(RefSet), Cardinality(EstSet))
                    /\ result[1].num = Min2(Cardinality(RefSet), Cardinality(EstSet)))

\* Two estimated boundaries lie within the window of the one reference
\* boundary and count as a single hit.
WitC2 ==
    /\ Returned("detection")
    /\ Cardinality(RefSet) = 1
    /\ Cardinality(EstSet) = 2
    /\ \A r \in RefSet : \A e \in EstSet : Abs(r - e) <= window
    /\ FracEq(result[1], Frac(1, 2))
    /\ FracEq(result[2], One)

\* C3: when the reference or the estimated boundary set is empty after the
\* optional trimming, detection returns exactly (0, 0, 0) and deviation
\* (NaN, NaN); the call does not raise, and the matching and the distance
\* matrix are not computed.
ThmC3 ==
    (passed # <<>> /\ (RefSet = {} \/ EstSet = {})) =>
        /\ pc # "raised"
        /\ Returned("detection") =>
              /\ result = <<Zero, Zero, Zero>>
              /\ "match_events" \notin Range(calls)
              /\ "f_measure" \notin Range(calls)
        /\ Returned("deviation") =>
              /\ Len(result) = 2
              /\ IsNaN(result[1]) /\ IsNaN(result[2])
              /\ "subtract.outer" \notin Range(calls)
              /\ "median" \notin Range(calls)

\* The estimate has no boundary left after trimming, the reference has.
WitC3 ==
    /\ Returned("detection")
    /\ trim
    /\ EstSet = {}
    /\ RefSet # {}
    /\ result = <<Zero, Zero, Zero>>

Rows(a) == Len(a.data)

Sentinel ==
    /\ Returned("detection") => result = <<Zero, Zero, Zero>>
    /\ Returned("deviation") => IsNaN(result[1]) /\ IsNaN(result[2])

NearestMedian(A, B) ==
    LET a == SortedSeq(A)
        near(x) == CHOOSE d \in {Abs(x - y) : y \in B} :
                       \A y \in B : d <= Abs(x - y)
    IN  Median([i \in 1..Len(a) |-> near(a[i])])

\* C5: deviation(b, a, trim) is deviation(a, b, trim) with its two components
\* exchanged, (NaN, NaN) included; the first component is the median over the
\* reference boundaries of the distance to the nearest estimated boundary, the
\* second the same with the roles exchanged, whatever the distance.
ThmC5 ==
    Returned("deviation") =>
        LET swapped == deviation(passed[2], passed[1], trim).value
        IN  /\ SameValue(result[1], swapped[2])
            /\ SameValue(result[2], swapped[1])
            /\ (RefSet # {} /\ EstSet # {}) =>
                  /\ FracEq(result[1], NearestMedian(RefSet, EstSet))
                  /\ FracEq(result[2], NearestMedian(EstSet, RefSet))

\* The two components differ, so that exchanging them is visible.
WitC5 ==
    /\ Returned("deviation")
    /\ ~IsNaN(result[1])
    /\ ~FracEq(result[1], result[2])
    /\ result[2].den = 2

\* An array the boundary validator must reject.
Malformed(a) ==
    \/ a.ndim # 2
    \/ a.shape1 # 2
    \/ \E i \in 1..Len(a.data) : \E k \in 1..Len(a.data[i]) : a.data[i][k] < 0
    \/ \E i \in 1..Len(a.data) : a.data[i][2] - a.data[i][1] <= 0

\* Malformed only by an interval of non-positive duration.
OnlyNonPositive(a) ==
    /\ a.ndim = 2
    /\ a.shape1 = 2
    /\ \A i \in 1..Len(a.data) : a.data[i][1] >= 0 /\ a.data[i][2] >= 0
    /\ \E i \in 1..Len(a.data) : a.data[i][2] - a.data[i][1] <= 0

\* The structure validator's own interval check accepts the array, and the
\* structure validator as a whole accepts it with one label per interval.
StructureAccepts(a) ==
    LET l == [i \in 1..Rows(a) |-> "a"]
    IN  /\ structure_validate_intervals(a) = NoError
        /\ a.data[1][1] = 0 => structure_validate(a, l, a, l) = NoError

\* C7: detection and deviation raise ValueError, and compute and return
\* nothing, whenever the reference or the estimated array is not 2-D with 2
\* columns, holds a negative timestamp or an interval with end - start <= 0;
\* otherwise the validator raises nothing and hands the same arguments to the
\* metric.  The structure validator does not reject an interval of
\* non-positive duration.
ThmC7 ==
    /\ pc # "call" =>
          IF Malformed(reference_intervals) \/ Malformed(estimated_intervals)
          THEN /\ pc = "raised"
               /\ error.type = "ValueError"
               /\ result = <<>>
               /\ calls = <<>>
               /\ passed = <<>>
          ELSE /\ pc # "raised"
               /\ error = NoError
               /\ passed = <<reference_intervals, estimated_intervals>>
    /\ \A a \in {reference_intervals, estimated_intervals} :
          OnlyNonPositive(a) =>
              /\ boundary_validate_intervals(a).type = "ValueError"
              /\ StructureAccepts(a)

\* The estimate is rejected for an interval of no duration, the reference
\* being well formed.
WitC7 ==
    /\ pc = "raised"
    /\ ~Malformed(reference_intervals)
    /\ OnlyNonPositive(estimated_intervals)
    /\ error.msg = "Non-positive interval detected"
    /\ error.at = <<1, 1>>
    /\ StructureAccepts(estimated_intervals)

\* ------------------------------------------------------ claims (structure)

\* The sample labels of a segmentation, before they are indexed.
SampleLabels(intervals, labels) ==
    intervals_to_samples(intervals, labels, frame_size)[2]

RefLabels == SampleLabels(reference_intervals, reference_labels)

EstLabels == SampleLabels(estimated_intervals, estimated_labels)

Finished == pc \in {"returned", "raised"} /\ passed # <<>>

\* C1 as stated: for validated input, window > 0, beta > 0 and frame_size > 0,
\* detection and pairwise return three values in [0, 1], none NaN, and no
\* division by zero occurs, zero-frame and one-frame tracks included.
CexC1 ==
    (Finished /\ metric \in {"detection", "pairwise"}
        /\ window > 0 /\ beta.num > 0 /\ frame_size > 0)
    => /\ pc = "returned"
       /\ Len(result) = 3
       /\ \A k \in 1..3 : InUnitInterval(result[k])

\* The detection half of C1, which holds.
DetectionInUnitInterval ==
    (Finished /\ metric = "detection")
    => /\ pc = "returned"
       /\ \A k \in 1..3 : InUnitInterval(result[k])

\* One (intervals, labels) pair passes the checks made on it alone: 2
\* columns, no negative time, one label per interval, first start within one
\* time unit (1e-8 s) of 0.
PerSequenceOK(a, l) ==
    /\ a.ndim = 2
    /\ a.shape1 = 2
    /\ \A i \in 1..Rows(a) : a.data[i][1] >= 0 /\ a.data[i][2] >= 0
    /\ Rows(a) = Len(l)
    /\ Rows(a) >= 1
    /\ Abs(a.data[1][1]) <= 1

BothOK ==
    /\ PerSequenceOK(reference_intervals, reference_labels)
    /\ PerSequenceOK(estimated_intervals, estimated_labels)

FinalEnd(a) == a.data[Rows(a)][2]

\* |ref end - est end| > 1e-8 + 1e-5 * |est end|
EndsDiffer ==
    RTolInv * (Abs(FinalEnd(reference_intervals) - FinalEnd(estimated_intervals)) - 1)
        > Abs(FinalEnd(estimated_intervals))

\* C6: every structure metric, given two sequences that each pass the checks
\* made on them alone but whose final end times differ by more than the
\* tolerance, raises the End times do not match ValueError and returns
\* nothing; that check is made only after both sequences passed, and the
\* metric runs only after it passed.
ThmC6 ==
    /\ (pc # "call" /\ BothOK /\ EndsDiffer) =>
          /\ pc = "raised"
          /\ error = ValueError("End times do not match")
          /\ result = <<>>
          /\ calls = <<>>
          /\ passed = <<>>
    /\ error.msg = "End times do not match" => BothOK /\ EndsDiffer
    /\ (pc \in {"metric", "returned"} \/ calls # <<>> \/ passed # <<>>) =>
          BothOK /\ ~EndsDiffer

\* The reference starts within the tolerance of 0 and ends two time units
\* after the estimate.
WitC6 ==
    /\ pc = "raised"
    /\ metric = "mutual_information"
    /\ BothOK
    /\ EndsDiffer
    /\ reference_intervals.data[1][1] = 1
    /\ FinalEnd(reference_intervals) = 3
    /\ FinalEnd(estimated_intervals) = 1
    /\ error.msg = "End times do not match"

\* Frame pairs (i, j) in the same cluster, by label: above the diagonal only,
\* or the diagonal included.
StrictPairs(y) ==
    {c \in (1..Len(y)) \X (1..Len(y)) : c[1] < c[2] /\ y[c[1]] = y[c[2]]}

DiagPairs(y) ==
    {c \in (1..Len(y)) \X (1..Len(y)) : c[1] <= c[2] /\ y[c[1]] = y[c[2]]}

\* x / d as a float: NaN for 0 / 0.
Ratio(x, d) == IF d = 0 THEN NaN ELSE Frac(x, d)

SameFrames == Len(RefLabels) = Len(EstLabels)

\* C8 as stated: pairwise counts the pairs i < j only: precision is
\* matches / (pairs i < j together in the estimate), recall
\* matches / (pairs i < j together in the reference), matches the pairs i < j
\* together in both.
CexC8 ==
    (Returned("pairwise") /\ SameFrames /\ Len(RefLabels) >= 1) =>
        LET matches == Cardinality(StrictPairs(RefLabels) \cap StrictPairs(EstLabels))
        IN  /\ SameValue(result[1], Ratio(matches, Cardinality(StrictPairs(EstLabels))))
            /\ SameValue(result[2], Ratio(matches, Cardinality(StrictPairs(RefLabels))))

\* C8 (amended): pairwise counts the pairs i <= j, self-pairs (i, i)
\* included: over the common frames of reference and estimate, matches is the
\* number of pairs i <= j together in both, precision matches / (pairs i <= j
\* together in the estimate), recall matches / (pairs i <= j together in the
\* reference).
ThmC8 ==
    (Returned("pairwise") /\ SameFrames) =>
        LET matches == Cardinality(DiagPairs(RefLabels) \cap DiagPairs(EstLabels))
        IN  /\ SameValue(result[1], Ratio(matches, Cardinality(DiagPairs(EstLabels))))
            /\ SameValue(result[2], Ratio(matches, Cardinality(DiagPairs(RefLabels))))

\* Three frames; the self-pairs alone make precision 4/4 and recall 4/6.
WitC8 ==
    /\ Returned("pairwise")
    /\ Len(RefLabels) = 3
    /\ Len(EstLabels) = 3
    /\ FracEq(result[1], One)
    /\ FracEq(result[2], Frac(2, 3))
    /\ Cardinality(StrictPairs(RefLabels) \cap StrictPairs(EstLabels)) = 1

Identical ==
    /\ reference_intervals = estimated_intervals
    /\ reference_labels = estimated_labels

\* C9: pairwise of a valid segmentation against itself, at least one frame
\* long, returns precision = recall = f_measure = 1, whatever beta and
\* frame_size.
ThmC9 ==
    (Finished /\ metric = "pairwise" /\ Identical /\ Len(RefLabels) >= 1) =>
        /\ pc = "returned"
        /\ \A k \in 1..3 : FracEq(result[k], One)

\* A segmentation of one frame only, beta = 2.
WitC9 ==
    /\ Returned("pairwise")
    /\ Identical
    /\ Len(RefLabels) = 1
    /\ beta = Frac(2, 1)
    /\ \A k \in 1..3 : FracEq(result[k], One)

Clusters(y) == Cardinality(Range(y))

\* C10: nce's S_under is NaN exactly when the reference frames form at most
\* one cluster, S_over exactly when the estimated frames do, each whatever the
\* other is, and S_F is NaN whenever either is; no such case raises.
\* nce returns <<S_over, S_under, S_F>>.
ThmC10 ==
    /\ Returned("nce") =>
          /\ IsNaN(result[2]) <=> Clusters(RefLabels) <= 1
          /\ IsNaN(result[1]) <=> Clusters(EstLabels) <= 1
          /\ (IsNaN(result[1]) \/ IsNaN(result[2])) => IsNaN(result[3])
          /\ (~IsNaN(result[1]) /\ ~IsNaN(result[2])) => ~IsNaN(result[3])
    /\ (Finished /\ metric = "nce" /\ pc = "raised") => ~SameFrames

\* One reference cluster against two estimated clusters: S_under alone is NaN.
WitC10 ==
    /\ Returned("nce")
    /\ Clusters(RefLabels) = 1
    /\ Clusters(EstLabels) = 2
    /\ IsNaN(result[2])
    /\ ~IsNaN(result[1])
    /\ IsNaN(result[3])

\* ------------------------------------------------------ claims (relabelling)

\* The label values a renaming may map to.
Vocabulary == Labels \cup {"c"}

\* The injective renamings of the labels.
Renamings == {f \in [Labels -> Vocabulary] : \A x, y \in Labels : f[x] = f[y] => x = y}

Rename(f, labels) == [k \in 1..Len(labels) |-> f[labels[k]]]

\* The finished call gives what the same metric gives on the labels rl, el:
\* pairwise the same outcome, nce the same NaN pattern.
SameOutcome(rl, el) ==
    IF metric = "pairwise"
    THEN \E d \in DivZero :
            LET r == pairwise(passed[1], rl, passed[3], el, frame_size, beta, d)
            IN  r.status = pc /\ r.value = result /\ r.error = error
    ELSE LET r == nce(passed[1], rl, passed[3], el, frame_size, beta)
         IN  /\ r.status = pc
             /\ r.error = error
             /\ pc = "returned" =>
                    \A k \in 1..3 : IsNaN(r.value[k]) <=> IsNaN(result[k])

\* C11: the result of pairwise, and the NaN pattern of nce, is the same when
\* the reference labels, or the estimated labels, go through any injective
\* renaming.
ThmC11 ==
    (Finished /\ metric \in {"pairwise", "nce"}) =>
        \A f \in Renamings :
            /\ structure_validate(passed[1], Rename(f, passed[2]),
                                  passed[3], passed[4]) = NoError
            /\ structure_validate(passed[1], passed[2],
                                  passed[3], Rename(f, passed[4])) = NoError
            /\ SameOutcome(Rename(f, passed[2]), passed[4])
            /\ SameOutcome(passed[2], Rename(f, passed[4]))

\* Two reference clusters against one estimated cluster over two frames:
\* precision 2/3, recall 1.
WitC11 ==
    /\ Returned("pairwise")
    /\ passed[2] = <<"a", "b">>
    /\ passed[4] = <<"a", "a">>
    /\ frame_size = 1
    /\ FracEq(result[1], Frac(2, 3))
    /\ FracEq(result[2], One)

\* ------------------------------------------------------- claims (taxonomy)

\* The validation step raised: the metric was not called.
ValidationRaised == pc = "raised" /\ passed = <<>> /\ metric \in StructureMetrics

\* The messages of the four kinds: shape, range, cardinality, alignment.
TaxonomyMessages ==
    { "Segment intervals should be n-by-2 numpy ndarray",
      "Negative interval times found",
      "Number of intervals does not match number of labels",
      "Segment intervals do not start at 0",
      "End times do not match" }

\* C12 as stated: whatever the input to a structure metric, an array with no
\* rows and an empty label list included, the validation step accepts it or
\* raises a ValueError of one of the four kinds; no other error escapes.
CexC12 ==
    ValidationRaised =>
        error.type = "ValueError" /\ error.msg \in TaxonomyMessages
====
